---- MODULE Spec2Model ----
(***************************************************************************)
(* A model of the AFEM glue code:                                          *)
(*   - afem/io/vsp/vsp_importer.py   the process-wide body mapping         *)
(*   - afem/structure/create.py      the part builders                     *)
(*   - afem/graphics/viewer.py       ViewableItem                          *)
(* Kernel (OpenCASCADE) operations are inputs: the model draws their       *)
(* outcomes (is_done flags, list lengths) from small sets and records the  *)
(* order in which the builders invoke them.                                *)
(***************************************************************************)
EXTENDS Integers, Sequences, FiniteSets, TLC

VARIABLES
    \* ImportVSP
    bodies,     \* ImportVSP._bodies: the class-level dict name -> body
    nimports,   \* how many step_file calls have been made (identifies bodies)
    history,    \* the step_file / clear calls made so far, in order
    call,       \* the last ImportVSP call and its outcome
    \* single-part builders
    res,        \* the constructor call made: class, arguments, kernel reports, run
    \* multi-part builders
    mb,         \* the last multi-part constructor call: class, arguments, run
    chain,      \* the builders chained through next_index: label, delimiter, labels
    \* ViewableItem
    item,       \* the item's attributes: color, transparency, mirror
    lastT,      \* the argument of the last set_transparency call
    lastC,      \* the arguments of the last set_color call
    vout,       \* what the last get_mirrored call returned
    vk,         \* what the kernel transform reported in that call
    \* patched TopoDS_Shape
    pshape,     \* the shape's patched attributes: color, transparency, mirror
    scall,      \* the last patched method called on the shape and its outcome
    \* occView
    widget,     \* the widget's attributes: my_context, my_view, _keys, _x0, _y0
    handled     \* the last event handled: the view operations invoked, the error

importVars == <<bodies, nimports, history, call>>

buildVars == <<res>>

multiVars == <<mb, chain>>

viewVars == <<item, lastT, lastC, vout, vk>>

patchVars == <<pshape, scall>>

occVars == <<widget, handled>>

vars == <<importVars, buildVars, multiVars, viewVars, patchVars, occVars>>

\* What the actions of one component leave alone.
notImport == <<buildVars, multiVars, viewVars, patchVars, occVars>>

notBuild == <<importVars, multiVars, viewVars, patchVars, occVars>>

notMulti == <<importVars, buildVars, viewVars, patchVars, occVars>>

notView == <<importVars, buildVars, multiVars, patchVars, occVars>>

notPatch == <<importVars, buildVars, multiVars, viewVars, occVars>>

notOcc == <<importVars, buildVars, multiVars, viewVars, patchVars>>

\* ------------------------------------------------------------------------
\* Python values shared by all components
\* ------------------------------------------------------------------------

\* A Python object: its class and its identity.
Obj(kind, id) == [kind |-> kind, id |-> id]

\* Python's None.
None == Obj("NoneType", "None")

\* The decimal digits.
Digits == <<"0", "1", "2", "3", "4", "5", "6", "7", "8", "9">>

RECURSIVE StrNat(_)
\* str(n) for n >= 0.
StrNat(n) ==
    IF n < 10 THEN Digits[n + 1] ELSE StrNat(n \div 10) \o Digits[(n % 10) + 1]

\* Python's str(i) for an int i.
Str(i) == IF i < 0 THEN "-" \o StrNat(-i) ELSE StrNat(i)

\* The outcome of a call: a returned value or a raised exception.
Return(v) == [exc |-> "none", val |-> v]

Raise(e) == [exc |-> e, val |-> None]

Max(S) == CHOOSE x \in S : \A y \in S : y <= x

\* ------------------------------------------------------------------------
\* ImportVSP (afem/io/vsp/vsp_importer.py)
\* ------------------------------------------------------------------------

\* Bound: the number of step_file / clear calls in one run.
MaxImports == 3

\* The body names that STEP files may carry.
Names == {"wing", "fuselage"}

\* An empty dict.
EmptyDict == [n \in {} |-> None]

\* What import_vsp_step(fn, divide_closed) returns for the k-th import of a
\* file carrying the names in S: fresh body objects keyed by name.
import_vsp_step(S, k) == [n \in S |-> Obj("Body", n \o "@" \o Str(k))]

\* dict.update(e) on d, without the fix: keeps the entries already there.
DictSetDefault(d, e) ==
    [k \in (DOMAIN d) \cup (DOMAIN e) |-> IF k \in DOMAIN d THEN d[k] ELSE e[k]]

\* dict.update(e) on d: e's entries overwrite d's, the rest of d is kept.
DictUpdate(d, e) ==
    [k \in (DOMAIN d) \cup (DOMAIN e) |-> IF k \in DOMAIN e THEN e[k] ELSE d[k]]

\* dict.clear() that forgets nothing.
DictKeep(d) == d

\* dict.clear() on d.
DictClear(d) == EmptyDict

\* d[k]: raises KeyError for a missing key.
Subscript(d, k) == IF k \in DOMAIN d THEN Return(d[k]) ELSE Raise("KeyError")

\* get_body without the except clause.
get_body_unguarded(d, name) == Subscript(d, name)

\* ImportVSP.get_body: try: return cls._bodies[name]; except KeyError: None.
get_body(d, name) ==
    LET r == Subscript(d, name)
    IN  IF r.exc = "KeyError" THEN Return(None) ELSE r

\* ImportVSP.get_bodies: returns the mapping itself.
get_bodies(d) == Return(d)

\* ImportVSP.step_file(fn): import the file and merge it into the mapping.
step_file ==
    /\ Len(history) < MaxImports
    /\ \E S \in SUBSET Names :
          LET new == import_vsp_step(S, nimports + 1)
          IN  /\ bodies' = DictUpdate(bodies, new)
              /\ nimports' = nimports + 1
              /\ history' = Append(history, [op |-> "step_file", file |-> new])
              /\ call' = [op |-> "step_file", arg |-> S, out |-> Return(TRUE)]
    /\ UNCHANGED notImport

\* ImportVSP.clear().
clear ==
    /\ Len(history) < MaxImports
    /\ bodies' = DictClear(bodies)
    /\ history' = Append(history, [op |-> "clear", file |-> EmptyDict])
    /\ call' = [op |-> "clear", arg |-> None, out |-> Return(TRUE)]
    /\ UNCHANGED <<nimports, notImport>>

\* A caller asks for one body.
call_get_body ==
    /\ \E name \in Names :
          call' = [op |-> "get_body", arg |-> name, out |-> get_body(bodies, name)]
    /\ UNCHANGED <<bodies, nimports, history, notImport>>

\* A caller asks for all bodies.
call_get_bodies ==
    /\ call' = [op |-> "get_bodies", arg |-> None, out |-> get_bodies(bodies)]
    /\ UNCHANGED <<bodies, nimports, history, notImport>>

InitImport ==
    /\ bodies = EmptyDict
    /\ nimports = 0
    /\ history = <<>>
    /\ call = [op |-> "none", arg |-> None, out |-> Return(None)]

NextImport == step_file \/ clear \/ call_get_body \/ call_get_bodies

\* ------------------------------------------------------------------------
\* Part builders (afem/structure/create.py): types and helpers
\* ------------------------------------------------------------------------

\* Bound: the largest number of closed free-edge wires a common shape has.
MaxWires == 2

\* Bound: the largest number of vertices an intersection yields.
MaxVerts == 1

\* Bound: the largest distance between the wing corner and a curve end.
MaxDist == 1

\* The classes an object of a given class is an instance of (isinstance
\* follows the class hierarchy of the geometry, topology and OML entities).
ClassesOf(kind) ==
    CASE kind = "Plane" -> {"Plane", "Surface"}
      [] kind \in {"TopoDS_Edge", "TopoDS_Wire", "TopoDS_Face", "TopoDS_Shell",
                   "TopoDS_Solid"} -> {kind, "TopoDS_Shape"}
      [] kind = "Body" -> {"Body", "TopoDS_Solid", "TopoDS_Shape"}
      [] kind \in {"Wing", "Fuselage"} ->
            {kind, "Body", "TopoDS_Solid", "TopoDS_Shape"}
      [] OTHER -> {kind}

\* isinstance(v, types).
IsInstance(v, types) == ClassesOf(v.kind) \cap types # {}

\* bool(v): None and 0 are false, every other object used here is true.
Truthy(v) == v.kind # "NoneType" /\ ~(v.kind = "int" /\ v.id = "0")

\* _validate_type that accepts everything.
validate_type_off(input_, type_, required) == "none"

\* _validate_type(input_, type_, required): the exception it raises, if any.
validate_type(input_, type_, required) ==
    IF ~required /\ ~Truthy(input_) THEN "none"
    ELSE IF ~IsInstance(input_, type_) THEN "TypeError"
    ELSE "none"

\* The values a caller may pass for an argument.
ArgValues ==
    { None, Obj("int", "0"), Obj("Curve", "crv"), Obj("Surface", "srf"),
      Obj("Plane", "pln"), Obj("TopoDS_Edge", "edge"), Obj("TopoDS_Face", "face"),
      Obj("Wing", "wing"), Obj("Fuselage", "fuselage") }

\* The values a caller may pass where a point is expected.
PointValues == { None, Obj("tuple", "xyz"), Obj("Point", "pnt") }

\* The values a caller may pass for a height.
HeightValues == { None, Obj("float", "h") }

\* The result of a kernel call f(a): a new object of class kind.
Call1(kind, f, a) == Obj(kind, f \o "(" \o a.id \o ")")

\* The result of a kernel call f(a, b).
Call2(kind, f, a, b) == Obj(kind, f \o "(" \o a.id \o "," \o b.id \o ")")

\* One invoked kernel operation and what it reported.
Op(name, out) == [op |-> name, out |-> out]

\* What a Boolean operation's is_done reports.
IsDone(done) == IF done THEN "done" ELSE "not done"

\* A structural part (afem.structure.entities): label, shape, cref, sref.
Part(cls, label, shape, cref, sref) ==
    [cls |-> cls, label |-> label, shape |-> shape, cref |-> cref, sref |-> sref]

\* No part object.
NoPart == Part("none", "", None, None, None)

\* A constructor run that raised e after invoking ops.
Fail(e, ops) == [exc |-> e, ops |-> ops, part |-> NoPart, ends |-> <<0, 0>>]

\* A constructor run that finished and holds part.
Built(ops, part) == [exc |-> "none", ops |-> ops, part |-> part, ends |-> <<0, 0>>]

\* The run r, preceded by the kernel operations pre.
After(pre, r) == [r EXCEPT !.ops = pre \o @]

\* CheckGeom.to_point(p): a Point for point-like input, else None.
to_point(p) ==
    IF p.kind = "Point" THEN p
    ELSE IF p.kind = "tuple" THEN Call1("Point", "to_point", p)
    ELSE None

\* Whether the object has the OML body methods (invert, eval, extract_*).
HasBodyMethods(v) == "Body" \in ClassesOf(v.kind)

\* ------------------------------------------------------------------------
\* Part builders (afem/structure/create.py): the single-part constructors.
\* Each takes the arguments of __init__ and, in k, what the kernel reports
\* (common_done, cut_done, nwires, nv1, nv2, d1, d2), and yields the run:
\* the exception raised, the kernel operations invoked and the part held.
\* ------------------------------------------------------------------------

\* The curve builders with the reference curve always taken from the shape.
CurveByShapeExtracting(cls, label, shape, cref) ==
    IF validate_type(shape, {"Curve", "TopoDS_Edge", "TopoDS_Wire"}, TRUE) # "none"
    THEN Fail("TypeError", <<>>)
    ELSE IF validate_type(cref, {"Curve"}, FALSE) # "none"
    THEN Fail("TypeError", <<>>)
    ELSE
        LET conv == IsInstance(shape, {"Curve"})
            shape1 == IF conv THEN Call1("TopoDS_Edge", "EdgeByCurve", shape)
                      ELSE shape
            ops1 == IF conv THEN <<Op("EdgeByCurve", "ok")>> ELSE <<>>
        IN  Built(Append(ops1, Op("curve_of_shape", "ok")),
                  Part(cls, label, shape1, Call1("Curve", "curve_of_shape", shape1),
                       None))

\* CurvePartByShape.__init__ / BeamByShape.__init__ (cls: the part class).
CurveByShape(cls, label, shape, cref) ==
    IF validate_type(shape, {"Curve", "TopoDS_Edge", "TopoDS_Wire"}, TRUE) # "none"
    THEN Fail("TypeError", <<>>)
    ELSE IF validate_type(cref, {"Curve"}, FALSE) # "none"
    THEN Fail("TypeError", <<>>)
    ELSE
        LET conv == IsInstance(shape, {"Curve"})
            shape1 == IF conv THEN Call1("TopoDS_Edge", "EdgeByCurve", shape)
                      ELSE shape
            ops1 == IF conv THEN <<Op("EdgeByCurve", "ok")>> ELSE <<>>
            extract == cref = None
            cref1 == IF extract THEN Call1("Curve", "curve_of_shape", shape1)
                     ELSE cref
            ops2 == IF extract THEN Append(ops1, Op("curve_of_shape", "ok"))
                    ELSE ops1
        IN  Built(ops2, Part(cls, label, shape1, cref1, None))

CurvePartByShape(label, shape, cref) == CurveByShape("CurvePart", label, shape, cref)

BeamByShape(label, shape, cref) == CurveByShape("Beam", label, shape, cref)

\* BeamByCurve.__init__.
BeamByCurve(label, crv) ==
    IF validate_type(crv, {"Curve"}, TRUE) # "none" THEN Fail("TypeError", <<>>)
    ELSE After(<<Op("EdgeByCurve", "ok")>>,
               BeamByShape(label, Call1("TopoDS_Edge", "EdgeByCurve", crv), crv))

\* BeamByPoints.__init__.
BeamByPoints(label, p1, p2) ==
    LET q1 == to_point(p1)
        q2 == to_point(p2)
    IN  IF validate_type(q1, {"Point"}, TRUE) # "none" THEN Fail("TypeError", <<>>)
        ELSE IF validate_type(q2, {"Point"}, TRUE) # "none"
        THEN Fail("TypeError", <<>>)
        ELSE After(<<Op("NurbsCurveByPoints", "ok")>>,
                   BeamByCurve(label, Call2("Curve", "NurbsCurveByPoints", q1, q2)))

\* SurfacePartByShape.__init__.
SurfacePartByShape(label, shape, cref, sref) ==
    IF validate_type(shape, {"Surface", "TopoDS_Face", "TopoDS_Shell"}, TRUE) # "none"
    THEN Fail("TypeError", <<>>)
    ELSE IF validate_type(cref, {"Curve"}, FALSE) # "none"
    THEN Fail("TypeError", <<>>)
    ELSE IF validate_type(sref, {"Surface"}, FALSE) # "none"
    THEN Fail("TypeError", <<>>)
    ELSE
        LET conv == IsInstance(shape, {"Curve"})
            shape1 == IF conv THEN Call1("TopoDS_Edge", "EdgeByCurve", shape)
                      ELSE shape
            ops1 == IF conv THEN <<Op("EdgeByCurve", "ok")>> ELSE <<>>
            extract == sref = None
            sref1 == IF extract THEN Call1("Surface", "surface_of_shape", shape1)
                     ELSE sref
            ops2 == IF extract THEN Append(ops1, Op("surface_of_shape", "ok"))
                    ELSE ops1
        IN  Built(ops2, Part("SurfacePart", label, shape1, cref, sref1))

\* "Build part shape" as every Boolean-common builder does it: CommonShapes,
\* the is_done test, then get_faces and ShapeByFaces. ops are the operations
\* invoked before; the part is cls(label, shape, cref, sref).
CommonPartNoCheck(cls, label, basis, body, cref, sref, ops, k) ==
    LET common == Call2("TopoDS_Shape", "CommonShapes", basis, body)
        shape == Call1("TopoDS_Shape", "ShapeByFaces",
                       Call1("list", "get_faces", common))
    IN  Built(ops \o <<Op("CommonShapes", IsDone(k.common_done)),
                       Op("get_faces", "ok"), Op("ShapeByFaces", "ok")>>,
              Part(cls, label, shape, cref, sref))

CommonPart(cls, label, basis, body, cref, sref, ops, k) ==
    LET ops1 == Append(ops, Op("CommonShapes", IsDone(k.common_done)))
    IN  IF ~k.common_done THEN Fail("RuntimeError", ops1)
        ELSE
            LET common == Call2("TopoDS_Shape", "CommonShapes", basis, body)
                shape == Call1("TopoDS_Shape", "ShapeByFaces",
                               Call1("list", "get_faces", common))
            IN  Built(ops1 \o <<Op("get_faces", "ok"), Op("ShapeByFaces", "ok")>>,
                      Part(cls, label, shape, cref, sref))

\* The parameter builders with the basis shape itself as reference surface.
ByParametersSrefAsGiven(cls, label, wing, basis_shape, k) ==
    IF validate_type(wing, {"Wing"}, TRUE) # "none" THEN Fail("TypeError", <<>>)
    ELSE IF validate_type(basis_shape, {"Surface", "TopoDS_Face", "TopoDS_Shell"},
                          FALSE) # "none"
    THEN Fail("TypeError", <<>>)
    ELSE CommonPart(cls, label, basis_shape, wing,
                    Call2("Curve", "extract_curve", wing, basis_shape), basis_shape,
                    <<Op("extract_curve", "ok")>>, k)

\* SparByParameters.__init__ / RibByParameters.__init__ (cls: "Spar" or "Rib").
ByParameters(cls, label, wing, basis_shape, k) ==
    IF validate_type(wing, {"Wing"}, TRUE) # "none" THEN Fail("TypeError", <<>>)
    ELSE IF validate_type(basis_shape, {"Surface", "TopoDS_Face", "TopoDS_Shell"},
                          FALSE) # "none"
    THEN Fail("TypeError", <<>>)
    ELSE
        LET isNone == basis_shape = None
            isSrf == ~isNone /\ IsInstance(basis_shape, {"Surface"})
            pln == Call1("Plane", "extract_plane", wing)
            sref == IF isNone THEN pln
                    ELSE IF isSrf THEN basis_shape
                    ELSE Call1("Surface", "surface_of_shape", basis_shape)
            basis == IF isNone THEN Call1("TopoDS_Face", "FaceBySurface", pln)
                     ELSE IF isSrf
                     THEN Call1("TopoDS_Face", "FaceBySurface", basis_shape)
                     ELSE basis_shape
            ops1 == IF isNone
                    THEN <<Op("extract_plane", "ok"), Op("FaceBySurface", "ok")>>
                    ELSE IF isSrf THEN <<Op("FaceBySurface", "ok")>>
                    ELSE <<Op("surface_of_shape", "ok")>>
            cref == Call2("Curve", "extract_curve", wing, basis)
        IN  CommonPart(cls, label, basis, wing, cref, sref,
                       Append(ops1, Op("extract_curve", "ok")), k)

SparByParameters(label, wing, basis_shape, k) ==
    ByParameters("Spar", label, wing, basis_shape, k)

RibByParameters(label, wing, basis_shape, k) ==
    ByParameters("Rib", label, wing, basis_shape, k)

\* SparByPoints.__init__ / RibByPoints.__init__: wing.invert is called
\* before the wing has been validated.
ByPoints(cls, label, p1, p2, wing, basis_shape, k) ==
    LET q1 == to_point(p1)
        q2 == to_point(p2)
    IN  IF validate_type(q1, {"Point"}, TRUE) # "none" THEN Fail("TypeError", <<>>)
        ELSE IF validate_type(q2, {"Point"}, TRUE) # "none"
        THEN Fail("TypeError", <<>>)
        ELSE IF ~HasBodyMethods(wing) THEN Fail("AttributeError", <<>>)
        ELSE After(<<Op("invert", "ok"), Op("invert", "ok")>>,
                   ByParameters(cls, label, wing, basis_shape, k))

SparByPoints(label, p1, p2, wing, basis_shape, k) ==
    ByPoints("Spar", label, p1, p2, wing, basis_shape, k)

RibByPoints(label, p1, p2, wing, basis_shape, k) ==
    ByPoints("Rib", label, p1, p2, wing, basis_shape, k)

\* The surface builders with the reference curve left as intersected.
BySurfaceUnoriented(cls, label, srf, wing, k) ==
    IF validate_type(srf, {"Surface"}, TRUE) # "none" THEN Fail("TypeError", <<>>)
    ELSE IF validate_type(wing, {"Wing"}, TRUE) # "none"
    THEN Fail("TypeError", <<>>)
    ELSE
        LET basis == Call1("TopoDS_Face", "FaceBySurface", srf)
            r == CommonPart(cls, label, basis, wing,
                            Call2("Curve", "intersection_curve", basis, wing), srf,
                            <<Op("FaceBySurface", "ok"), Op("IntersectShapes", "ok"),
                              Op("curve_of_shape", "ok")>>, k)
        IN  IF r.exc # "none" THEN r ELSE [r EXCEPT !.ends = <<k.d1, k.d2>>]

\* SparBySurface.__init__ / RibBySurface.__init__. k.d1 and k.d2 are the
\* distances from the wing point at (u1, v1) to the start and the end of the
\* intersection curve; ends are those of the part's reference curve.
BySurface(cls, label, srf, wing, k) ==
    IF validate_type(srf, {"Surface"}, TRUE) # "none" THEN Fail("TypeError", <<>>)
    ELSE IF validate_type(wing, {"Wing"}, TRUE) # "none"
    THEN Fail("TypeError", <<>>)
    ELSE
        LET basis == Call1("TopoDS_Face", "FaceBySurface", srf)
            c0 == Call2("Curve", "intersection_curve", basis, wing)
            rev == k.d2 < k.d1
            cref == IF rev THEN Call1("Curve", "reverse", c0) ELSE c0
            ops1 == <<Op("FaceBySurface", "ok"), Op("IntersectShapes", "ok"),
                      Op("get_edges", "ok"), Op("WiresByConnectedEdges", "ok"),
                      Op("LengthOfShapes", "ok"), Op("to_wire", "ok"),
                      Op("curve_of_shape", "ok")>>
            ops2 == IF rev THEN Append(ops1, Op("reverse", "ok")) ELSE ops1
            r == CommonPart(cls, label, basis, wing, cref, srf, ops2, k)
        IN  IF r.exc # "none" THEN r
            ELSE [r EXCEPT !.ends = IF rev THEN <<k.d2, k.d1>> ELSE <<k.d1, k.d2>>]

SparBySurface(label, srf, wing, k) == BySurface("Spar", label, srf, wing, k)

RibBySurface(label, srf, wing, k) == BySurface("Rib", label, srf, wing, k)

\* SparBetweenShapes.__init__ / RibBetweenShapes.__init__: the first vertex
\* of each intersection is taken with [0].
BetweenShapes(cls, label, shape1, shape2, wing, basis_shape, k) ==
    IF validate_type(shape1, {"TopoDS_Shape"}, TRUE) # "none"
    THEN Fail("TypeError", <<>>)
    ELSE IF validate_type(shape2, {"TopoDS_Shape"}, TRUE) # "none"
    THEN Fail("TypeError", <<>>)
    ELSE IF validate_type(wing, {"Wing"}, TRUE) # "none"
    THEN Fail("TypeError", <<>>)
    ELSE IF validate_type(basis_shape, {"Surface", "TopoDS_Face", "TopoDS_Shell"},
                          FALSE) # "none"
    THEN Fail("TypeError", <<>>)
    ELSE
        LET isSrf == IsInstance(basis_shape, {"Surface"})
            basis == IF isSrf THEN Call1("TopoDS_Face", "FaceBySurface", basis_shape)
                     ELSE basis_shape
            ops1 == (IF isSrf THEN <<Op("FaceBySurface", "ok")>> ELSE <<>>)
                    \o <<Op("IntersectShapes", "ok"), Op("IntersectShapes", "ok"),
                         Op("IntersectShapes", "ok")>>
            ops2 == Append(ops1, Op("get_vertices", Str(k.nv1)))
            ops3 == Append(ops2, Op("get_vertices", Str(k.nv2)))
            p1 == Call2("Point", "pnt_of_vertex", shape1, basis)
            p2 == Call2("Point", "pnt_of_vertex", shape2, basis)
        IN  IF k.nv1 = 0 THEN Fail("IndexError", ops2)
            ELSE IF k.nv2 = 0 THEN Fail("IndexError", ops3)
            ELSE After(ops3 \o <<Op("pnt_of_vertex", "ok"), Op("pnt_of_vertex", "ok")>>,
                       ByPoints(cls, label, p1, p2, wing, basis, k))

SparBetweenShapes(label, shape1, shape2, wing, basis_shape, k) ==
    BetweenShapes("Spar", label, shape1, shape2, wing, basis_shape, k)

RibBetweenShapes(label, shape1, shape2, wing, basis_shape, k) ==
    BetweenShapes("Rib", label, shape1, shape2, wing, basis_shape, k)

\* BulkheadBySurface.__init__ / FloorBySurface.__init__.
FuselageBySurface(cls, label, srf, fuselage, k) ==
    IF validate_type(srf, {"Surface"}, TRUE) # "none" THEN Fail("TypeError", <<>>)
    ELSE IF validate_type(fuselage, {"Fuselage"}, TRUE) # "none"
    THEN Fail("TypeError", <<>>)
    ELSE CommonPart(cls, label, Call1("TopoDS_Face", "FaceBySurface", srf),
                    fuselage, None, srf, <<Op("FaceBySurface", "ok")>>, k)

BulkheadBySurface(label, srf, fuselage, k) ==
    FuselageBySurface("Bulkhead", label, srf, fuselage, k)

FloorBySurface(label, srf, fuselage, k) ==
    FuselageBySurface("Floor", label, srf, fuselage, k)

\* FrameByPlane.__init__: closed_wires[0] is taken unless there are several
\* closed wires; abs(height) is evaluated before the offset.
FrameByPlane(label, pln, fuselage, height, k) ==
    IF validate_type(pln, {"Plane"}, TRUE) # "none" THEN Fail("TypeError", <<>>)
    ELSE IF validate_type(fuselage, {"Fuselage"}, TRUE) # "none"
    THEN Fail("TypeError", <<>>)
    ELSE
        LET basis == Call1("TopoDS_Face", "FaceBySurface", pln)
            ops1 == <<Op("FaceBySurface", "ok"),
                      Op("CommonShapes", IsDone(k.common_done))>>
            ops2 == Append(ops1, Op("ExploreFreeEdges", Str(k.nwires)))
            ops3 == IF k.nwires > 1 THEN Append(ops2, Op("LengthOfShapes", "ok"))
                    ELSE ops2
            ops4 == ops3 \o <<Op("WireByPlanarOffset", "ok"), Op("WireByConcat", "ok"),
                              Op("FaceByPlanarWire", "ok"),
                              Op("CutShapes", IsDone(k.cut_done))>>
            common == Call2("TopoDS_Shape", "CommonShapes", basis, fuselage)
            inner == Call2("TopoDS_Face", "FaceByPlanarWire", common, height)
            shape == Call1("TopoDS_Shape", "ShapeByFaces",
                        Call1("list", "get_faces",
                              Call2("TopoDS_Shape", "CutShapes", common, inner)))
        IN  IF ~k.common_done THEN Fail("RuntimeError", ops1)
            ELSE IF k.nwires = 0 THEN Fail("IndexError", ops2)
            ELSE IF height.kind \notin {"float", "int"} THEN Fail("TypeError", ops3)
            ELSE IF ~k.cut_done THEN Fail("RuntimeError", ops4)
            ELSE Built(ops4 \o <<Op("get_faces", "ok"), Op("ShapeByFaces", "ok")>>,
                       Part("Frame", label, shape, None, pln))

\* SkinBySolid.__init__.
SkinBySolid(label, solid, copy) ==
    IF validate_type(solid, {"TopoDS_Solid"}, TRUE) # "none"
    THEN Fail("TypeError", <<>>)
    ELSE
        LET shell0 == Call1("TopoDS_Shell", "outer_shell", solid)
            shell == IF copy THEN Call1("TopoDS_Shell", "copy_shape", shell0)
                     ELSE shell0
            ops == IF copy THEN <<Op("outer_shell", "ok"), Op("copy_shape", "ok")>>
                   ELSE <<Op("outer_shell", "ok")>>
        IN  Built(ops, Part("Skin", label, shell, None, None))

\* SkinByBody.__init__.
SkinByBody(label, body, copy) ==
    IF validate_type(body, {"Body"}, TRUE) # "none" THEN Fail("TypeError", <<>>)
    ELSE SkinBySolid(label, body, copy)

\* ------------------------------------------------------------------------
\* Part builders: one constructor call on drawn arguments and kernel reports
\* ------------------------------------------------------------------------

\* The part labels a caller passes.
Labels == {"rib"}

\* The values a caller may pass where a kernel shape is expected.
ShapeValues == { None, Obj("Curve", "crv"), Obj("TopoDS_Face", "face") }

\* Kernel reports when nothing goes wrong.
DefaultK ==
    [common_done |-> TRUE, cut_done |-> TRUE, nwires |-> 1, nv1 |-> 1, nv2 |-> 1,
     d1 |-> 0, d2 |-> 0]

\* Reports of the Boolean common operation.
CommonK == {[DefaultK EXCEPT !.common_done = b] : b \in BOOLEAN}

\* Reports met by SparBySurface / RibBySurface.
SurfaceK ==
    {[DefaultK EXCEPT !.common_done = b, !.d1 = x, !.d2 = y] :
        b \in BOOLEAN, x \in 0..MaxDist, y \in 0..MaxDist}

\* Reports met by SparBetweenShapes / RibBetweenShapes.
BetweenK ==
    {[DefaultK EXCEPT !.common_done = b, !.nv1 = x, !.nv2 = y] :
        b \in BOOLEAN, x \in 0..MaxVerts, y \in 0..MaxVerts}

\* Reports met by FrameByPlane.
FrameK ==
    {[DefaultK EXCEPT !.common_done = b, !.cut_done = c, !.nwires = n] :
        b \in BOOLEAN, c \in BOOLEAN, n \in 0..MaxWires}

\* The record of a constructor call.
Called(cls, args, k, run) == [cls |-> cls, args |-> args, k |-> k, run |-> run]

NoCall == Called("none", <<>>, DefaultK, Built(<<>>, NoPart))

new_CurvePartByShape ==
    /\ res = NoCall
    /\ \E label \in Labels, shape \in ArgValues, cref \in ArgValues :
          res' = Called("CurvePartByShape",
                        [label |-> label, shape |-> shape, cref |-> cref],
                        DefaultK, CurvePartByShape(label, shape, cref))
    /\ UNCHANGED notBuild

new_BeamByShape ==
    /\ res = NoCall
    /\ \E label \in Labels, shape \in ArgValues, cref \in ArgValues :
          res' = Called("BeamByShape",
                        [label |-> label, shape |-> shape, cref |-> cref],
                        DefaultK, BeamByShape(label, shape, cref))
    /\ UNCHANGED notBuild

new_BeamByCurve ==
    /\ res = NoCall
    /\ \E label \in Labels, crv \in ArgValues :
          res' = Called("BeamByCurve", [label |-> label, crv |-> crv],
                        DefaultK, BeamByCurve(label, crv))
    /\ UNCHANGED notBuild

new_BeamByPoints ==
    /\ res = NoCall
    /\ \E label \in Labels, p1 \in PointValues, p2 \in PointValues :
          res' = Called("BeamByPoints", [label |-> label, p1 |-> p1, p2 |-> p2],
                        DefaultK, BeamByPoints(label, p1, p2))
    /\ UNCHANGED notBuild

new_SurfacePartByShape ==
    /\ res = NoCall
    /\ \E label \in Labels, shape \in ArgValues, cref \in ArgValues,
          sref \in ArgValues :
          res' = Called("SurfacePartByShape",
                        [label |-> label, shape |-> shape, cref |-> cref,
                         sref |-> sref],
                        DefaultK, SurfacePartByShape(label, shape, cref, sref))
    /\ UNCHANGED notBuild

new_SparByParameters ==
    /\ res = NoCall
    /\ \E label \in Labels, wing \in ArgValues, basis \in ArgValues, k \in CommonK :
          res' = Called("SparByParameters",
                        [label |-> label, wing |-> wing, basis_shape |-> basis],
                        k, SparByParameters(label, wing, basis, k))
    /\ UNCHANGED notBuild

new_RibByParameters ==
    /\ res = NoCall
    /\ \E label \in Labels, wing \in ArgValues, basis \in ArgValues, k \in CommonK :
          res' = Called("RibByParameters",
                        [label |-> label, wing |-> wing, basis_shape |-> basis],
                        k, RibByParameters(label, wing, basis, k))
    /\ UNCHANGED notBuild

new_SparByPoints ==
    /\ res = NoCall
    /\ \E label \in Labels, p1 \in PointValues, p2 \in PointValues,
          wing \in ArgValues, basis \in ArgValues, k \in CommonK :
          res' = Called("SparByPoints",
                        [label |-> label, p1 |-> p1, p2 |-> p2, wing |-> wing,
                         basis_shape |-> basis],
                        k, SparByPoints(label, p1, p2, wing, basis, k))
    /\ UNCHANGED notBuild

new_RibByPoints ==
    /\ res = NoCall
    /\ \E label \in Labels, p1 \in PointValues, p2 \in PointValues,
          wing \in ArgValues, basis \in ArgValues, k \in CommonK :
          res' = Called("RibByPoints",
                        [label |-> label, p1 |-> p1, p2 |-> p2, wing |-> wing,
                         basis_shape |-> basis],
                        k, RibByPoints(label, p1, p2, wing, basis, k))
    /\ UNCHANGED notBuild

new_SparBySurface ==
    /\ res = NoCall
    /\ \E label \in Labels, srf \in ArgValues, wing \in ArgValues, k \in SurfaceK :
          res' = Called("SparBySurface",
                        [label |-> label, srf |-> srf, wing |-> wing],
                        k, SparBySurface(label, srf, wing, k))
    /\ UNCHANGED notBuild

new_RibBySurface ==
    /\ res = NoCall
    /\ \E label \in Labels, srf \in ArgValues, wing \in ArgValues, k \in SurfaceK :
          res' = Called("RibBySurface",
                        [label |-> label, srf |-> srf, wing |-> wing],
                        k, RibBySurface(label, srf, wing, k))
    /\ UNCHANGED notBuild

new_SparBetweenShapes ==
    /\ res = NoCall
    /\ \E label \in Labels, shape1 \in ShapeValues, shape2 \in ShapeValues,
          wing \in ArgValues, basis \in ArgValues, k \in BetweenK :
          res' = Called("SparBetweenShapes",
                        [label |-> label, shape1 |-> shape1, shape2 |-> shape2,
                         wing |-> wing, basis_shape |-> basis],
                        k, SparBetweenShapes(label, shape1, shape2, wing, basis, k))
    /\ UNCHANGED notBuild

new_RibBetweenShapes ==
    /\ res = NoCall
    /\ \E label \in Labels, shape1 \in ShapeValues, shape2 \in ShapeValues,
          wing \in ArgValues, basis \in ArgValues, k \in BetweenK :
          res' = Called("RibBetweenShapes",
                        [label |-> label, shape1 |-> shape1, shape2 |-> shape2,
                         wing |-> wing, basis_shape |-> basis],
                        k, RibBetweenShapes(label, shape1, shape2, wing, basis, k))
    /\ UNCHANGED notBuild

new_BulkheadBySurface ==
    /\ res = NoCall
    /\ \E label \in Labels, srf \in ArgValues, fuselage \in ArgValues,
          k \in CommonK :
          res' = Called("BulkheadBySurface",
                        [label |-> label, srf |-> srf, fuselage |-> fuselage],
                        k, BulkheadBySurface(label, srf, fuselage, k))
    /\ UNCHANGED notBuild

new_FloorBySurface ==
    /\ res = NoCall
    /\ \E label \in Labels, srf \in ArgValues, fuselage \in ArgValues,
          k \in CommonK :
          res' = Called("FloorBySurface",
                        [label |-> label, srf |-> srf, fuselage |-> fuselage],
                        k, FloorBySurface(label, srf, fuselage, k))
    /\ UNCHANGED notBuild

new_FrameByPlane ==
    /\ res = NoCall
    /\ \E label \in Labels, pln \in ArgValues, fuselage \in ArgValues,
          height \in HeightValues, k \in FrameK :
          res' = Called("FrameByPlane",
                        [label |-> label, pln |-> pln, fuselage |-> fuselage,
                         height |-> height],
                        k, FrameByPlane(label, pln, fuselage, height, k))
    /\ UNCHANGED notBuild

new_SkinBySolid ==
    /\ res = NoCall
    /\ \E label \in Labels, solid \in ArgValues, copy \in BOOLEAN :
          res' = Called("SkinBySolid", [label |-> label, solid |-> solid],
                        DefaultK, SkinBySolid(label, solid, copy))
    /\ UNCHANGED notBuild

new_SkinByBody ==
    /\ res = NoCall
    /\ \E label \in Labels, body \in ArgValues, copy \in BOOLEAN :
          res' = Called("SkinByBody", [label |-> label, body |-> body],
                        DefaultK, SkinByBody(label, body, copy))
    /\ UNCHANGED notBuild

InitBuild == res = NoCall

NextBuild ==
    \/ new_CurvePartByShape \/ new_BeamByShape \/ new_BeamByCurve
    \/ new_BeamByPoints \/ new_SurfacePartByShape
    \/ new_SparByParameters \/ new_RibByParameters
    \/ new_SparByPoints \/ new_RibByPoints
    \/ new_SparBySurface \/ new_RibBySurface
    \/ new_SparBetweenShapes \/ new_RibBetweenShapes
    \/ new_BulkheadBySurface \/ new_FloorBySurface \/ new_FrameByPlane
    \/ new_SkinBySolid \/ new_SkinByBody

\* ------------------------------------------------------------------------
\* Specifications: one per component, the other components left alone
\* ------------------------------------------------------------------------

\* ------------------------------------------------------------------------
\* Multi-part builders (afem/structure/create.py)
\* ------------------------------------------------------------------------

\* Bound: the largest number of planes a plane builder yields.
MaxPlanes == 3

\* Bound: a chain is not continued once it has made this many parts.
MaxParts == 3

\* The delimiters a caller passes.
Delimiters == {" ", ""}

\* The first indices a caller passes to the first builder of a chain.
FirstIndexes == {-1, 9}

\* A value of a type no builder accepts.
WrongValue == Obj("str", "oops")

\* The i-th argument: v, or a wrong value when i is the bad position.
Arg(v, i, bad) == IF i = bad THEN WrongValue ELSE v

\* What the kernel reports for one rib of a multi-part builder.
RibK == {DefaultK, [DefaultK EXCEPT !.common_done = FALSE], [DefaultK EXCEPT !.nv1 = 0]}

\* What the kernel reports for one frame of a multi-part builder.
FrameStepK == {DefaultK, [DefaultK EXCEPT !.cut_done = FALSE], [DefaultK EXCEPT !.nwires = 0]}

\* The kernel reports for n parts: all good, or one part meets f (the loop
\* stops at the first part that fails, so later reports are never read).
ReportsFor(n, bad, K) ==
    IF bad = 0
    THEN {[i \in 1..n |-> IF i = j THEN f ELSE DefaultK] : j \in 0..n, f \in K}
    ELSE {[i \in 1..n |-> DefaultK]}

\* The numbers of planes tried: every number with good arguments, the
\* largest with a bad one.
PlaneCounts(bad) == IF bad = 0 THEN 0..MaxPlanes ELSE {MaxPlanes}

RECURSIVE Join(_, _)
\* delimiter.join(parts).
Join(delimiter, parts) ==
    IF parts = <<>> THEN ""
    ELSE IF Len(parts) = 1 THEN parts[1]
    ELSE parts[1] \o delimiter \o Join(delimiter, Tail(parts))

\* The plane builders of afem.geometry.create (PlanesBetweenPlanesByNumber,
\* PlanesBetweenPlanesByDistance, PlanesAlongCurveByNumber,
\* PlanesAlongCurveByDistance): np planes, their number and their spacing.
PlanesBuilder(np) ==
    [planes |-> [i \in 1..np |-> Obj("Plane", "pln" \o Str(i))],
     nplanes |-> np,
     spacing |-> Obj("float", "spacing")]

\* The state of a multi-part constructor: the exception raised, the parts
\* appended so far, the count attribute, the spacing, the running index
\* (first_index, then next_index) and the number of planes processed.
MRun(exc, parts, count, ds, index, processed) ==
    [exc |-> exc, parts |-> parts, count |-> count, ds |-> ds,
     next_index |-> index, processed |-> processed]

\* A multi-part constructor that raised during validation.
MFail(e) == MRun(e, <<>>, 0, None, 0, 0)

\* The label built by plain concatenation, the delimiter left out.
LabelNoDelimiter(label, delimiter, first_index) == label \o Str(first_index)

\* The loop body's label: delimiter.join([label, str(first_index)]).
LabelIndx(label, delimiter, first_index) ==
    Join(delimiter, <<label, Str(first_index)>>)

\* first_index += 1, forgotten.
NoIncrement(i) == i

\* first_index += 1.
PlusOne(i) == i + 1

RECURSIVE RibLoopSkipping(_, _, _)
\* The loop with a failing rib caught and skipped.
RibLoopSkipping(st, planes, c) ==
    IF planes = <<>> THEN st
    ELSE
        LET basis_shape == Call1("TopoDS_Face", "FaceBySurface", Head(planes))
            label_indx == LabelIndx(c.label, c.delimiter, st.next_index)
            r == RibBetweenShapes(label_indx, c.shape1, c.shape2, c.wing,
                                  basis_shape, c.ks[st.processed + 1])
        IN  IF r.exc # "none"
            THEN RibLoopSkipping([st EXCEPT !.processed = @ + 1], Tail(planes), c)
            ELSE RibLoopSkipping([st EXCEPT !.parts = Append(@, r.part),
                                            !.next_index = PlusOne(@),
                                            !.processed = @ + 1],
                                 Tail(planes), c)

RECURSIVE RibLoop(_, _, _)
\* for pln in builder.planes: build a rib between the shapes, count up.
\* c holds label, delimiter, shape1, shape2, wing and the kernel reports ks.
RibLoop(st, planes, c) ==
    IF planes = <<>> THEN st
    ELSE
        LET basis_shape == Call1("TopoDS_Face", "FaceBySurface", Head(planes))
            label_indx == LabelIndx(c.label, c.delimiter, st.next_index)
            r == RibBetweenShapes(label_indx, c.shape1, c.shape2, c.wing,
                                  basis_shape, c.ks[st.processed + 1])
        IN  IF r.exc # "none"
            THEN [st EXCEPT !.exc = r.exc, !.processed = @ + 1]
            ELSE RibLoop([st EXCEPT !.parts = Append(@, r.part),
                                    !.next_index = PlusOne(@),
                                    !.processed = @ + 1],
                         Tail(planes), c)

RECURSIVE FrameLoop(_, _, _)
\* for pln in planes: build a frame by the plane, count up.
\* c holds label, delimiter, fuselage, height and the kernel reports ks.
FrameLoop(st, planes, c) ==
    IF planes = <<>> THEN st
    ELSE
        LET label_indx == LabelIndx(c.label, c.delimiter, st.next_index)
            r == FrameByPlane(label_indx, Head(planes), c.fuselage, c.height,
                              c.ks[st.processed + 1])
        IN  IF r.exc # "none"
            THEN [st EXCEPT !.exc = r.exc, !.processed = @ + 1]
            ELSE FrameLoop([st EXCEPT !.parts = Append(@, r.part),
                                      !.next_index = PlusOne(@),
                                      !.processed = @ + 1],
                           Tail(planes), c)

\* RibsBetweenPlanesByNumber.__init__ / RibsBetweenPlanesByDistance.__init__:
\* np is the number of planes the plane builder yields.
RibsBetweenPlanes(label, pln1, pln2, shape1, shape2, wing, first_index, delimiter, np, ks) ==
    IF validate_type(pln1, {"Plane"}, TRUE) # "none" THEN MFail("TypeError")
    ELSE IF validate_type(pln2, {"Plane"}, TRUE) # "none" THEN MFail("TypeError")
    ELSE IF validate_type(wing, {"Wing"}, TRUE) # "none" THEN MFail("TypeError")
    ELSE IF validate_type(shape1, {"TopoDS_Shape"}, TRUE) # "none"
    THEN MFail("TypeError")
    ELSE IF validate_type(shape2, {"TopoDS_Shape"}, TRUE) # "none"
    THEN MFail("TypeError")
    ELSE
        LET builder == PlanesBuilder(np)
        IN  RibLoop(MRun("none", <<>>, builder.nplanes, builder.spacing,
                         first_index, 0),
                    builder.planes,
                    [label |-> label, delimiter |-> delimiter, shape1 |-> shape1,
                     shape2 |-> shape2, wing |-> wing, ks |-> ks])

RibsBetweenPlanesByNumber(label, pln1, pln2, n, shape1, shape2, wing, first_index, delimiter, ks) ==
    RibsBetweenPlanes(label, pln1, pln2, shape1, shape2, wing, first_index,
                      delimiter, n, ks)

RibsBetweenPlanesByDistance(label, pln1, pln2, shape1, shape2, wing, first_index, delimiter, np, ks) ==
    RibsBetweenPlanes(label, pln1, pln2, shape1, shape2, wing, first_index,
                      delimiter, np, ks)

\* RibsAlongCurveByNumber.__init__ / RibsAlongCurveByDistance.__init__.
RibsAlongCurve(label, crv, shape1, shape2, wing, ref_pln, first_index, delimiter, np, ks) ==
    IF validate_type(crv, {"Curve"}, TRUE) # "none" THEN MFail("TypeError")
    ELSE IF validate_type(shape1, {"TopoDS_Shape"}, TRUE) # "none"
    THEN MFail("TypeError")
    ELSE IF validate_type(shape2, {"TopoDS_Shape"}, TRUE) # "none"
    THEN MFail("TypeError")
    ELSE IF validate_type(wing, {"Wing"}, TRUE) # "none" THEN MFail("TypeError")
    ELSE IF validate_type(ref_pln, {"Plane"}, FALSE) # "none"
    THEN MFail("TypeError")
    ELSE
        LET builder == PlanesBuilder(np)
        IN  RibLoop(MRun("none", <<>>, builder.nplanes, builder.spacing,
                         first_index, 0),
                    builder.planes,
                    [label |-> label, delimiter |-> delimiter, shape1 |-> shape1,
                     shape2 |-> shape2, wing |-> wing, ks |-> ks])

RibsAlongCurveByNumber(label, crv, n, shape1, shape2, wing, ref_pln, first_index, delimiter, ks) ==
    RibsAlongCurve(label, crv, shape1, shape2, wing, ref_pln, first_index,
                   delimiter, n, ks)

RibsAlongCurveByDistance(label, crv, shape1, shape2, wing, ref_pln, first_index, delimiter, np, ks) ==
    RibsAlongCurve(label, crv, shape1, shape2, wing, ref_pln, first_index,
                   delimiter, np, ks)

\* FramesBetweenPlanesByNumber.__init__ / FramesBetweenPlanesByDistance.__init__.
FramesBetweenPlanes(label, pln1, pln2, fuselage, height, first_index, delimiter, np, ks) ==
    IF validate_type(pln1, {"Plane"}, TRUE) # "none" THEN MFail("TypeError")
    ELSE IF validate_type(pln2, {"Plane"}, TRUE) # "none" THEN MFail("TypeError")
    ELSE IF validate_type(fuselage, {"Fuselage"}, TRUE) # "none"
    THEN MFail("TypeError")
    ELSE
        LET builder == PlanesBuilder(np)
        IN  FrameLoop(MRun("none", <<>>, builder.nplanes, builder.spacing,
                           first_index, 0),
                      builder.planes,
                      [label |-> label, delimiter |-> delimiter,
                       fuselage |-> fuselage, height |-> height, ks |-> ks])

FramesBetweenPlanesByNumber(label, pln1, pln2, n, fuselage, height, first_index, delimiter, ks) ==
    FramesBetweenPlanes(label, pln1, pln2, fuselage, height, first_index,
                        delimiter, n, ks)

FramesBetweenPlanesByDistance(label, pln1, pln2, fuselage, height, first_index, delimiter, np, ks) ==
    FramesBetweenPlanes(label, pln1, pln2, fuselage, height, first_index,
                        delimiter, np, ks)

\* len(plns), off by one.
LenPlus(plns) == Len(plns) + 1

\* len(plns) as FramesByPlanes stores it in _nframes.
LenOf(plns) == Len(plns)

\* FramesByPlanes.__init__: every plane is validated first; the spacing is
\* the distance between the first two planes, if there are two.
FramesByPlanes(label, plns, fuselage, height, first_index, delimiter, ks) ==
    IF \E i \in 1..Len(plns) : validate_type(plns[i], {"Plane"}, TRUE) # "none"
    THEN MFail("TypeError")
    ELSE IF validate_type(fuselage, {"Fuselage"}, TRUE) # "none"
    THEN MFail("TypeError")
    ELSE
        LET st == FrameLoop(MRun("none", <<>>, LenOf(plns), None, first_index, 0),
                            plns,
                            [label |-> label, delimiter |-> delimiter,
                             fuselage |-> fuselage, height |-> height, ks |-> ks])
        IN  IF st.exc = "none" /\ Len(plns) > 1
            THEN [st EXCEPT !.ds = Call2("float", "distance", plns[1], plns[2])]
            ELSE st

\* ------------------------------------------------------------------------
\* Multi-part builders: a caller chaining constructor calls
\* ------------------------------------------------------------------------

\* The record of a multi-part constructor call.
MCalled(cls, args, run) == [cls |-> cls, args |-> args, run |-> run]

NoMulti == MCalled("none", <<>>, MFail("none"))

\* The labels of a list of parts.
LabelsOf(parts) == [i \in 1..Len(parts) |-> parts[i].label]

\* How the caller may start the next builder: the first builder of a chain
\* with any label, delimiter and first index, a later one with the same label
\* and delimiter and the previous builder's next_index.
Starts ==
    IF mb = NoMulti
    THEN {[label |-> l, delimiter |-> d, first_index |-> f, labels |-> <<>>] :
            l \in Labels, d \in Delimiters, f \in FirstIndexes}
    ELSE IF mb.run.exc = "none" /\ Len(chain.labels) < MaxParts
    THEN {[label |-> chain.label, delimiter |-> chain.delimiter,
           first_index |-> mb.run.next_index, labels |-> chain.labels]}
    ELSE {}

\* The call is recorded; the parts of a successful builder join the chain.
Record(cls, args, c, run) ==
    /\ mb' = MCalled(cls, args, run)
    /\ chain' = [label |-> c.label, delimiter |-> c.delimiter,
                 labels |-> IF run.exc = "none"
                            THEN c.labels \o LabelsOf(run.parts)
                            ELSE c.labels]
    /\ UNCHANGED notMulti

\* The arguments all multi-part builders share.
Common(c) ==
    [label |-> c.label, delimiter |-> c.delimiter, first_index |-> c.first_index]

new_RibsBetweenPlanesByNumber ==
    \E c \in Starts, bad \in 0..5 :
     \E n \in PlaneCounts(bad) :
      \E ks \in ReportsFor(n, bad, RibK) :
        LET pln1 == Arg(Obj("Plane", "pln1"), 1, bad)
            pln2 == Arg(Obj("Plane", "pln2"), 2, bad)
            wing == Arg(Obj("Wing", "wing"), 3, bad)
            shape1 == Arg(Obj("TopoDS_Face", "shape1"), 4, bad)
            shape2 == Arg(Obj("TopoDS_Face", "shape2"), 5, bad)
        IN  Record("RibsBetweenPlanesByNumber",
                   [common |-> Common(c), reports |-> ks, given |-> <<pln1, pln2, wing, shape1, shape2>>],
                   c,
                   RibsBetweenPlanesByNumber(c.label, pln1, pln2, n, shape1, shape2,
                                             wing, c.first_index, c.delimiter, ks))

new_RibsBetweenPlanesByDistance ==
    \E c \in Starts, bad \in 0..5 :
     \E np \in PlaneCounts(bad) :
      \E ks \in ReportsFor(np, bad, RibK) :
        LET pln1 == Arg(Obj("Plane", "pln1"), 1, bad)
            pln2 == Arg(Obj("Plane", "pln2"), 2, bad)
            wing == Arg(Obj("Wing", "wing"), 3, bad)
            shape1 == Arg(Obj("TopoDS_Face", "shape1"), 4, bad)
            shape2 == Arg(Obj("TopoDS_Face", "shape2"), 5, bad)
        IN  Record("RibsBetweenPlanesByDistance",
                   [common |-> Common(c), reports |-> ks, given |-> <<pln1, pln2, wing, shape1, shape2>>],
                   c,
                   RibsBetweenPlanesByDistance(c.label, pln1, pln2, shape1, shape2,
                                               wing, c.first_index, c.delimiter,
                                               np, ks))

new_RibsAlongCurveByNumber ==
    \E c \in Starts, bad \in 0..5 :
     \E n \in PlaneCounts(bad) :
      \E ks \in ReportsFor(n, bad, RibK) :
        LET crv == Arg(Obj("Curve", "crv"), 1, bad)
            shape1 == Arg(Obj("TopoDS_Face", "shape1"), 2, bad)
            shape2 == Arg(Obj("TopoDS_Face", "shape2"), 3, bad)
            wing == Arg(Obj("Wing", "wing"), 4, bad)
            ref_pln == Arg(None, 5, bad)
        IN  Record("RibsAlongCurveByNumber",
                   [common |-> Common(c), reports |-> ks, given |-> <<crv, shape1, shape2, wing, ref_pln>>],
                   c,
                   RibsAlongCurveByNumber(c.label, crv, n, shape1, shape2, wing,
                                          ref_pln, c.first_index, c.delimiter, ks))

new_RibsAlongCurveByDistance ==
    \E c \in Starts, bad \in 0..5 :
     \E np \in PlaneCounts(bad) :
      \E ks \in ReportsFor(np, bad, RibK) :
        LET crv == Arg(Obj("Curve", "crv"), 1, bad)
            shape1 == Arg(Obj("TopoDS_Face", "shape1"), 2, bad)
            shape2 == Arg(Obj("TopoDS_Face", "shape2"), 3, bad)
            wing == Arg(Obj("Wing", "wing"), 4, bad)
            ref_pln == Arg(Obj("Plane", "ref_pln"), 5, bad)
        IN  Record("RibsAlongCurveByDistance",
                   [common |-> Common(c), reports |-> ks, given |-> <<crv, shape1, shape2, wing, ref_pln>>],
                   c,
                   RibsAlongCurveByDistance(c.label, crv, shape1, shape2, wing,
                                            ref_pln, c.first_index, c.delimiter,
                                            np, ks))

new_FramesBetweenPlanesByNumber ==
    \E c \in Starts, bad \in 0..3 :
     \E n \in PlaneCounts(bad) :
      \E ks \in ReportsFor(n, bad, FrameStepK) :
        LET pln1 == Arg(Obj("Plane", "pln1"), 1, bad)
            pln2 == Arg(Obj("Plane", "pln2"), 2, bad)
            fuselage == Arg(Obj("Fuselage", "fuselage"), 3, bad)
        IN  Record("FramesBetweenPlanesByNumber",
                   [common |-> Common(c), reports |-> ks, given |-> <<pln1, pln2, fuselage>>],
                   c,
                   FramesBetweenPlanesByNumber(c.label, pln1, pln2, n, fuselage,
                                               Obj("float", "h"), c.first_index,
                                               c.delimiter, ks))

new_FramesBetweenPlanesByDistance ==
    \E c \in Starts, bad \in 0..3 :
     \E np \in PlaneCounts(bad) :
      \E ks \in ReportsFor(np, bad, FrameStepK) :
        LET pln1 == Arg(Obj("Plane", "pln1"), 1, bad)
            pln2 == Arg(Obj("Plane", "pln2"), 2, bad)
            fuselage == Arg(Obj("Fuselage", "fuselage"), 3, bad)
        IN  Record("FramesBetweenPlanesByDistance",
                   [common |-> Common(c), reports |-> ks, given |-> <<pln1, pln2, fuselage>>],
                   c,
                   FramesBetweenPlanesByDistance(c.label, pln1, pln2, fuselage,
                                                 Obj("float", "h"), c.first_index,
                                                 c.delimiter, np, ks))

\* bad = 1: the last plane of the list is not a plane; 2: the fuselage is wrong.
new_FramesByPlanes ==
    \E c \in Starts, bad \in 0..2 :
     \E n \in PlaneCounts(bad) :
      \E ks \in ReportsFor(n, bad, FrameStepK) :
        LET plns == [i \in 1..n |->
                        IF bad = 1 /\ i = n THEN WrongValue
                        ELSE Obj("Plane", "pln" \o Str(i))]
            fuselage == Arg(Obj("Fuselage", "fuselage"), 2, bad)
        IN  Record("FramesByPlanes",
                   [common |-> Common(c), reports |-> ks, given |-> <<plns, fuselage>>],
                   c,
                   FramesByPlanes(c.label, plns, fuselage, Obj("float", "h"),
                                  c.first_index, c.delimiter, ks))

InitMulti ==
    /\ mb = NoMulti
    /\ chain = [label |-> "", delimiter |-> "", labels |-> <<>>]

NextMulti ==
    \/ new_RibsBetweenPlanesByNumber \/ new_RibsBetweenPlanesByDistance
    \/ new_RibsAlongCurveByNumber \/ new_RibsAlongCurveByDistance
    \/ new_FramesBetweenPlanesByNumber \/ new_FramesBetweenPlanesByDistance
    \/ new_FramesByPlanes

\* ------------------------------------------------------------------------
\* ViewableItem (afem/graphics/viewer.py)
\* ------------------------------------------------------------------------

\* Bound: how far outside [0, 1] transparency arguments are drawn, in
\* quarters.
MaxQuarters == 2

\* A number n/d (d > 0); floats are modelled by exact fractions.
Num(n, d) == <<n, d>>

\* a < b.
Lt(a, b) == a[1] * b[2] < b[1] * a[2]

\* a / m for a positive integer m.
DivBy(a, m) == <<a[1], a[2] * m>>

\* The floats 0. and 1. of the source.
Zero == Num(0, 1)

One == Num(1, 1)

\* The transparencies a caller passes.
TransparencyArgs == {Num(n, 4) : n \in (0 - MaxQuarters)..(4 + MaxQuarters)}

\* The colour components a caller passes.
ColorArgs == {Num(1, 2), Num(1, 1), Num(2, 1), Num(255, 1), Num(510, 1)}

\* The components rand() yields for the initial colour.
RandArgs == {Num(0, 1), Num(1, 2)}

\* The mirror planes a caller passes.
MirrorArgs == {None, Obj("Plane", "xz")}

\* Quantity_Color(r, g, b, Quantity_TOC_RGB).
Quantity_Color(r, g, b) == [r |-> r, g |-> g, b |-> b]

\* A colour component left as it was passed.
NotNormalised(c) == c

\* One colour component as set_color normalises it.
Normalised(c) == IF Lt(One, c) THEN DivBy(c, 255) ELSE c

\* ViewableItem.set_color(r, g, b): the item afterwards.
set_color(self, r, g, b) ==
    [self EXCEPT !.color = Quantity_Color(Normalised(r), Normalised(g), Normalised(b))]

\* set_transparency that clamps only from below.
set_transparency_no_upper(self, transparency) ==
    [self EXCEPT !.transparency =
        IF Lt(transparency, Zero) THEN Zero ELSE transparency]

\* ViewableItem.set_transparency(transparency): the item afterwards.
set_transparency(self, transparency) ==
    [self EXCEPT !.transparency =
        IF Lt(transparency, Zero) THEN Zero
        ELSE IF Lt(One, transparency) THEN One
        ELSE transparency]

\* ViewableItem.set_mirror(pln): the item afterwards.
set_mirror(self, pln) == [self EXCEPT !.mirror = pln]

\* What BRepBuilderAPI_Transform reports in get_mirrored: nothing when it is
\* not invoked, else whether it is done.
Transform(self, done) == IF ~Truthy(self.mirror) THEN "none" ELSE IsDone(done)

\* get_mirrored without the IsDone test.
get_mirrored_unchecked(self, done) ==
    IF ~Truthy(self.mirror) THEN None
    ELSE Call1("TopoDS_Shape", "mirrored", self.mirror)

\* ViewableItem.get_mirrored(): what it returns when the kernel transform
\* reports done or not.
get_mirrored(self, done) ==
    IF ~Truthy(self.mirror) THEN None
    ELSE IF ~done THEN None
    ELSE Call1("TopoDS_Shape", "mirrored", self.mirror)

\* No ViewableItem has been constructed.
NoItem == [color |-> Quantity_Color(Zero, Zero, Zero), transparency |-> Zero,
           mirror |-> None, made |-> FALSE]

InitView ==
    /\ item = NoItem
    /\ lastT = [set |-> FALSE, arg |-> Zero]
    /\ lastC = [set |-> FALSE, args |-> <<Zero, Zero, Zero>>]
    /\ vout = None
    /\ vk = "none"

\* ViewableItem.__init__: a random colour, transparency 0., no mirror.
new_ViewableItem ==
    /\ ~item.made
    /\ \E r \in RandArgs, g \in RandArgs, b \in RandArgs :
          item' = [color |-> Quantity_Color(r, g, b), transparency |-> Zero,
                   mirror |-> None, made |-> TRUE]
    /\ UNCHANGED <<lastT, lastC, vout, vk, notView>>

call_set_color ==
    /\ item.made
    /\ \E r \in ColorArgs, g \in ColorArgs, b \in ColorArgs :
          /\ item' = set_color(item, r, g, b)
          /\ lastC' = [set |-> TRUE, args |-> <<r, g, b>>]
    /\ UNCHANGED <<lastT, vout, vk, notView>>

call_set_transparency ==
    /\ item.made
    /\ \E t \in TransparencyArgs :
          /\ item' = set_transparency(item, t)
          /\ lastT' = [set |-> TRUE, arg |-> t]
    /\ UNCHANGED <<lastC, vout, vk, notView>>

call_set_mirror ==
    /\ item.made
    /\ \E pln \in MirrorArgs : item' = set_mirror(item, pln)
    /\ UNCHANGED <<lastT, lastC, vout, vk, notView>>

call_get_mirrored ==
    /\ item.made
    /\ \E done \in BOOLEAN :
          /\ vout' = get_mirrored(item, done)
          /\ vk' = Transform(item, done)
    /\ UNCHANGED <<item, lastT, lastC, notView>>

NextView ==
    \/ new_ViewableItem
    \/ call_set_color \/ call_set_transparency \/ call_set_mirror \/ call_get_mirrored

\* ------------------------------------------------------------------------
\* Patched TopoDS_Shape (afem/patches/topo_patch.py)
\* ------------------------------------------------------------------------

\* _set_color(self, r, g, b): the shape afterwards.
_set_color(self, r, g, b) ==
    [self EXCEPT !.color = Quantity_Color(Normalised(r), Normalised(g), Normalised(b))]

\* _set_transparency(self, transparency): the shape afterwards.
_set_transparency(self, transparency) == [self EXCEPT !.transparency = transparency]

\* _set_mirror(self, pln): the shape afterwards.
_set_mirror(self, pln) == [self EXCEPT !.mirror = pln]

\* _get_mirrored(self): what it returns when the kernel transform reports
\* done or not.
_get_mirrored(self, done) ==
    IF ~Truthy(self.mirror) THEN None
    ELSE IF ~done THEN None
    ELSE Call1("TopoDS_Shape", "mirrored", self.mirror)

\* A patched method call on the shape: its name, arguments, what the kernel
\* transform reported and the return value.
SCalled(op, args, k, out) == [op |-> op, args |-> args, k |-> k, out |-> out]

\* The class attributes the patch sets on TopoDS_Shape; no method called.
InitPatch ==
    /\ pshape = [color |-> None, transparency |-> Zero, mirror |-> None]
    /\ scall = SCalled("none", <<>>, "none", None)

TopoDS_Shape_set_color ==
    /\ \E r \in ColorArgs, g \in ColorArgs, b \in ColorArgs :
          /\ pshape' = _set_color(pshape, r, g, b)
          /\ scall' = SCalled("set_color", <<r, g, b>>, "none", None)
    /\ UNCHANGED notPatch

TopoDS_Shape_set_transparency ==
    /\ \E t \in TransparencyArgs :
          /\ pshape' = _set_transparency(pshape, t)
          /\ scall' = SCalled("set_transparency", <<t>>, "none", None)
    /\ UNCHANGED notPatch

TopoDS_Shape_set_mirror ==
    /\ \E pln \in MirrorArgs :
          /\ pshape' = _set_mirror(pshape, pln)
          /\ scall' = SCalled("set_mirror", <<pln>>, "none", None)
    /\ UNCHANGED notPatch

TopoDS_Shape_get_mirrored ==
    /\ \E done \in BOOLEAN :
          scall' = SCalled("get_mirrored", <<>>, Transform(pshape, done),
                           _get_mirrored(pshape, done))
    /\ UNCHANGED <<pshape, notPatch>>

NextPatch ==
    \/ TopoDS_Shape_set_color \/ TopoDS_Shape_set_transparency
    \/ TopoDS_Shape_set_mirror \/ TopoDS_Shape_get_mirrored

\* ------------------------------------------------------------------------
\* occView (afem/graphics/viewer.py): the widget's event handlers
\* ------------------------------------------------------------------------

\* Bound: the largest mouse coordinate an event carries.
MaxCoord == 1

\* The keys a key press may carry (X stands for every other key).
Keys == {"F", "I", "T", "X"}

\* The wheel deltas an event may carry.
Deltas == {-1, 0, 1}

\* The mouse buttons held during a mouse move.
Buttons == {"LeftButton", "MidButton", "RightButton", "NoButton"}

\* An operation invoked on the kernel view, with its arguments.
ViewOp(op, args) == [op |-> op, args |-> args]

\* What a handler did: the widget afterwards, the operations it invoked on
\* the view, and the exception it raised.
Handled(w, ops, exc) == [w |-> w, ops |-> ops, exc |-> exc]

\* A call of method op on self.my_view after the operations ops: an
\* AttributeError while my_view is None.
OnView(w, ops, op, args) ==
    IF ~w.my_view THEN Handled(w, ops, "AttributeError")
    ELSE Handled(w, Append(ops, ViewOp(op, args)), "none")

\* occView.init(): creates viewer, view and context and the keyboard map.
init(w) ==
    Handled([w EXCEPT !.my_view = TRUE, !.my_context = TRUE, !.keys = TRUE],
            <<ViewOp("SetWindow", <<>>), ViewOp("SetBackgroundColor", <<>>),
              ViewOp("TriedronDisplay", <<>>), ViewOp("SetProj", <<"XposYposZpos">>),
              ViewOp("View", <<>>)>>,
            "none")

\* occView.paintEvent.
paintEvent(w) ==
    LET h == IF ~w.my_context THEN init(w) ELSE Handled(w, <<>>, "none")
    IN  OnView(h.w, h.ops, "Redraw", <<>>)

\* occView.resizeEvent: if self.my_view is None: self.my_view.MustBeResized().
resizeEvent(w) ==
    IF ~w.my_view THEN OnView(w, <<>>, "MustBeResized", <<>>)
    ELSE Handled(w, <<>>, "none")

\* occView.view_iso / occView.view_top.
view_iso(w) == OnView(w, <<>>, "SetProj", <<"XposYposZpos">>)

view_top(w) == OnView(w, <<>>, "SetProj", <<"Zpos">>)

\* occView.keyPressEvent: self._keys[e.key()]() with KeyError swallowed;
\* the attribute _keys does not exist before init().
keyPressEvent(w, key) ==
    IF ~w.keys THEN Handled(w, <<>>, "AttributeError")
    ELSE CASE key = "F" -> OnView(w, <<>>, "FitAll", <<>>)
           [] key = "I" -> view_iso(w)
           [] key = "T" -> view_top(w)
           [] OTHER -> Handled(w, <<>>, "none")

\* occView.wheelEvent: zoom 1.5 for a positive delta, else 0.75.
wheelEvent(w, delta) ==
    OnView(w, <<>>, "SetZoom", <<IF delta > 0 THEN Num(3, 2) ELSE Num(3, 4)>>)

\* occView.mousePressEvent / occView.mouseDoubleClickEvent.
mousePressEvent(w, x, y) ==
    OnView([w EXCEPT !.x0 = x, !.y0 = y], <<>>, "StartRotation", <<x, y>>)

mouseDoubleClickEvent(w, x, y) ==
    OnView([w EXCEPT !.x0 = x, !.y0 = y], <<>>, "StartRotation", <<x, y>>)

\* occView.mouseMoveEvent: rotate with the left button, pan with the middle
\* or right one.
mouseMoveEvent(w, x, y, button) ==
    IF button = "LeftButton" THEN OnView(w, <<>>, "Rotation", <<x, y>>)
    ELSE IF button \in {"MidButton", "RightButton"}
    THEN OnView([w EXCEPT !.x0 = x, !.y0 = y], <<>>, "Pan",
                <<x - w.x0, 0 - (y - w.y0)>>)
    ELSE Handled(w, <<>>, "none")

\* The event delivered, its arguments and what the handler did; the widget
\* keeps the attributes the handler assigned, also when it raised.
Deliver(event, args, h) ==
    /\ widget' = h.w
    /\ handled' = [event |-> event, args |-> args, before |-> widget,
                   ops |-> h.ops, exc |-> h.exc]
    /\ UNCHANGED notOcc

\* occView.__init__: no viewer, view or context yet, the mouse at (0, 0).
InitOcc ==
    /\ widget = [my_context |-> FALSE, my_view |-> FALSE, keys |-> FALSE,
                 x0 |-> 0, y0 |-> 0]
    /\ handled = [event |-> "none", args |-> <<>>, before |-> widget,
                  ops |-> <<>>, exc |-> "none"]

on_paintEvent == Deliver("paintEvent", <<>>, paintEvent(widget))

on_resizeEvent == Deliver("resizeEvent", <<>>, resizeEvent(widget))

on_keyPressEvent ==
    \E key \in Keys : Deliver("keyPressEvent", <<key>>, keyPressEvent(widget, key))

on_wheelEvent ==
    \E delta \in Deltas : Deliver("wheelEvent", <<delta>>, wheelEvent(widget, delta))

on_mousePressEvent ==
    \E x \in 0..MaxCoord, y \in 0..MaxCoord :
        Deliver("mousePressEvent", <<x, y>>, mousePressEvent(widget, x, y))

on_mouseDoubleClickEvent ==
    \E x \in 0..MaxCoord, y \in 0..MaxCoord :
        Deliver("mouseDoubleClickEvent", <<x, y>>, mouseDoubleClickEvent(widget, x, y))

on_mouseMoveEvent ==
    \E x \in 0..MaxCoord, y \in 0..MaxCoord, button \in Buttons :
        Deliver("mouseMoveEvent", <<Str(x), Str(y), button>>,
                mouseMoveEvent(widget, x, y, button))

NextOcc ==
    \/ on_paintEvent \/ on_resizeEvent \/ on_keyPressEvent \/ on_wheelEvent
    \/ on_mousePressEvent \/ on_mouseDoubleClickEvent \/ on_mouseMoveEvent

\* Until the components below are called nothing of theirs has happened.
Init == InitImport /\ InitBuild /\ InitMulti /\ InitView /\ InitPatch /\ InitOcc

\* The importer alone.
SpecImport == Init /\ [][NextImport]_vars

\* One single-part builder call.
SpecBuild == Init /\ [][NextBuild]_vars

\* A chain of multi-part builder calls.
SpecMulti == Init /\ [][NextMulti]_vars

\* One ViewableItem.
SpecView == Init /\ [][NextView]_vars

\* One patched shape.
SpecPatch == Init /\ [][NextPatch]_vars

\* The colour of a ViewableItem and of a patched shape.
NextColor == new_ViewableItem \/ call_set_color \/ TopoDS_Shape_set_color

SpecColor == Init /\ [][NextColor]_vars

\* The mirror of a ViewableItem and of a patched shape.
NextMirror ==
    \/ new_ViewableItem \/ call_set_transparency
    \/ call_set_mirror \/ call_get_mirrored
    \/ TopoDS_Shape_set_mirror \/ TopoDS_Shape_get_mirrored

SpecMirror == Init /\ [][NextMirror]_vars

\* The events delivered to one occView widget.
SpecOcc == Init /\ [][NextOcc]_vars

Next == NextImport \/ NextBuild \/ NextMulti \/ NextView \/ NextPatch \/ NextOcc

Spec == Init /\ [][Next]_vars

\* ---- Claims about ImportVSP ------------------------------------------

\* Index of the last clear in the history (0 when there was none).
LastClear ==
    LET C == {i \in 1..Len(history) : history[i].op = "clear"}
    IN  IF C = {} THEN 0 ELSE Max(C)

\* The imports since the last clear whose file carried the name n.
ImportsOf(n) ==
    {i \in (LastClear + 1)..Len(history) : n \in DOMAIN history[i].file}

\* C1: after any sequence of step_file calls with no clear in between,
\* get_body(name) returns, for every name that appeared in an imported file,
\* the body from the most recent import that contained that name (so bodies
\* of names that were not re-imported are retained), and None for a name
\* that no import contained.
C1_MostRecentImportWins ==
    \A n \in Names :
        LET got == get_body(bodies, n)
        IN  /\ got.exc = "none"
            /\ IF ImportsOf(n) = {}
               THEN got.val = None
               ELSE got.val = history[Max(ImportsOf(n))].file[n]

\* A name was imported twice, and another name was imported only before
\* the latest of those imports.
C1_Witness ==
    \E n, m \in Names :
        /\ Cardinality(ImportsOf(n)) >= 2
        /\ ImportsOf(m) # {}
        /\ Max(ImportsOf(m)) < Max(ImportsOf(n))

\* C2: immediately after clear, get_bodies is empty and get_body(name) is
\* None for every name, whatever imports preceded it; clear returns True.
C2_ClearRemovesAll ==
    call.op = "clear" =>
        /\ call.out = Return(TRUE)
        /\ DOMAIN get_bodies(bodies).val = {}
        /\ \A n \in Names : get_body(bodies, n) = Return(None)

\* clear was called on a mapping that two imports had filled.
C2_Witness ==
    /\ call.op = "clear"
    /\ Len(history) = 3
    /\ DOMAIN history[1].file = {"wing"}
    /\ DOMAIN history[2].file = Names

\* C3: get_body(name) for a name that is not in the mapping returns None
\* instead of raising, and neither get_body nor get_bodies changes the
\* mapping.
C3_LookupsAreReadOnly ==
    /\ [](\A n \in Names : n \notin DOMAIN bodies => get_body(bodies, n) = Return(None))
    /\ []((call.op = "get_body" /\ call.arg \notin DOMAIN bodies)
            => call.out = Return(None))
    /\ [][call'.op \in {"get_body", "get_bodies"} => bodies' = bodies]_vars

\* get_body was called for a name missing from a non-empty mapping.
C3_Witness ==
    /\ call.op = "get_body"
    /\ call.arg \notin DOMAIN bodies
    /\ bodies # EmptyDict
    /\ call.out = Return(None)

\* ---- Claims about ViewableItem ---------------------------------------

\* C10: a ViewableItem's transparency is always within [0, 1]: it is 0
\* after construction, and after any sequence of set_transparency calls it
\* equals the last argument clamped to [0, 1]: an argument below 0 gives 0,
\* one above 1 gives 1, one inside is stored unchanged.
C10_TransparencyClamped ==
    item.made =>
    /\ ~Lt(item.transparency, Zero)
    /\ ~Lt(One, item.transparency)
    /\ ~lastT.set => item.transparency = Zero
    /\ (lastT.set /\ Lt(lastT.arg, Zero)) => item.transparency = Zero
    /\ (lastT.set /\ Lt(One, lastT.arg)) => item.transparency = One
    /\ (lastT.set /\ ~Lt(lastT.arg, Zero) /\ ~Lt(One, lastT.arg))
          => item.transparency = lastT.arg

\* A call with an argument above 1 was made after other attributes changed.
C10_Witness ==
    /\ lastT.set
    /\ Lt(One, lastT.arg)
    /\ item.transparency = One
    /\ item.mirror # None

\* ------------------------------------------------------------------------
\* Claims about the part builders
\* ------------------------------------------------------------------------

\* C4: every failure of a part builder is a TypeError or a RuntimeError; no
\* builder fails with any other kind of error, also when an intersection
\* yields no vertices or a common shape has no closed free-edge wire.
C4_OnlyTypeErrorOrRuntimeError ==
    res.run.exc \in {"none", "TypeError", "RuntimeError"}

\* The builders C5 names.
ValidatingBuilders ==
    {"CurvePartByShape", "BeamByShape", "SurfacePartByShape", "SparByParameters",
     "RibByParameters", "SparBySurface", "RibBySurface", "BulkheadBySurface",
     "FloorBySurface", "FrameByPlane", "SkinBySolid"}

\* The arguments a builder passes to _validate_type as required, with the
\* types it requires of them.
Validated(cls) ==
    CASE cls \in {"CurvePartByShape", "BeamByShape"} ->
            {[name |-> "shape", types |-> {"Curve", "TopoDS_Edge", "TopoDS_Wire"}]}
      [] cls = "SurfacePartByShape" ->
            {[name |-> "shape", types |-> {"Surface", "TopoDS_Face", "TopoDS_Shell"}]}
      [] cls \in {"SparByParameters", "RibByParameters"} ->
            {[name |-> "wing", types |-> {"Wing"}]}
      [] cls \in {"SparBySurface", "RibBySurface"} ->
            {[name |-> "srf", types |-> {"Surface"}],
             [name |-> "wing", types |-> {"Wing"}]}
      [] cls \in {"BulkheadBySurface", "FloorBySurface"} ->
            {[name |-> "srf", types |-> {"Surface"}],
             [name |-> "fuselage", types |-> {"Fuselage"}]}
      [] cls = "FrameByPlane" ->
            {[name |-> "pln", types |-> {"Plane"}],
             [name |-> "fuselage", types |-> {"Fuselage"}]}
      [] cls = "SkinBySolid" ->
            {[name |-> "solid", types |-> {"TopoDS_Solid"}]}
      [] OTHER -> {}

\* The arguments without a default whose type the docstring gives, other than
\* the label: the validated ones and the height of FrameByPlane.
Documented(cls) ==
    IF cls = "FrameByPlane"
    THEN Validated(cls) \cup {[name |-> "height", types |-> {"float"}]}
    ELSE Validated(cls)

\* The call raised TypeError before any kernel operation and holds no part.
RejectedAtOnce ==
    /\ res.run.exc = "TypeError"
    /\ res.run.ops = <<>>
    /\ res.run.part = NoPart

\* C5 as stated: in the eleven builders, a required argument that is not an
\* instance of its required type raises TypeError before any kernel
\* operation is invoked, and no part is created.
C5_AnyRequiredArgument ==
    res.cls \in ValidatingBuilders =>
        \A q \in Documented(res.cls) :
            ~IsInstance(res.args[q.name], q.types) => RejectedAtOnce

\* C5, amended: in the eleven builders, an argument that _validate_type
\* checks as required and that is not an instance of the required type
\* raises TypeError before any kernel operation is invoked, and no part is
\* created.
C5_ValidatedArgument ==
    res.cls \in ValidatingBuilders =>
        \A q \in Validated(res.cls) :
            ~IsInstance(res.args[q.name], q.types) => RejectedAtOnce

\* A surface builder given a good surface and something that is no wing.
C5_Witness ==
    /\ res.cls = "SparBySurface"
    /\ IsInstance(res.args.srf, {"Surface"})
    /\ res.args.wing.kind = "Fuselage"
    /\ RejectedAtOnce

\* The builders C6 names.
BooleanBuilders ==
    {"SparByParameters", "RibByParameters", "SparBySurface", "RibBySurface",
     "BulkheadBySurface", "FloorBySurface", "FrameByPlane"}

\* The i-th kernel operation of the call is a Boolean one that was not done.
NotDoneAt(i) ==
    /\ res.run.ops[i].op \in {"CommonShapes", "CutShapes"}
    /\ res.run.ops[i].out = "not done"

\* C6: in the seven builders, when a Boolean operation (CommonShapes, and
\* CutShapes in FrameByPlane) reports is_done false, the constructor raises
\* RuntimeError, invokes no later kernel operation and creates no part.
C6_NotDoneRaisesRuntimeError ==
    res.cls \in BooleanBuilders =>
        \A i \in 1..Len(res.run.ops) :
            NotDoneAt(i) =>
                /\ res.run.exc = "RuntimeError"
                /\ i = Len(res.run.ops)
                /\ res.run.part = NoPart

\* A frame whose common shape was found and whose cut was not done.
C6_Witness ==
    /\ res.cls = "FrameByPlane"
    /\ res.k.common_done /\ ~res.k.cut_done
    /\ Len(res.run.ops) > 2
    /\ NotDoneAt(Len(res.run.ops))
    /\ res.run.exc = "RuntimeError"

\* The call was made by one of the classes and built its part.
BuiltBy(classes) == res.cls \in classes /\ res.run.exc = "none"

\* The positions of the kernel operation op among those the call invoked.
Positions(op) == {i \in 1..Len(res.run.ops) : res.run.ops[i].op = op}

\* The result of the kernel call f on the objects with the given ids.
Made(kind, f, ids) == Obj(kind, f \o "(" \o ids \o ")")

\* C14: CurvePartByShape and BeamByShape: a reference curve that is provided
\* is the part's reference curve; without one the reference curve is
\* extracted from the part's shape, where a Curve given as shape is first
\* converted to an edge and an edge or wire is used as it is.
C14_ReferenceCurveOfCurveParts ==
    BuiltBy({"CurvePartByShape", "BeamByShape"}) =>
        LET a == res.args
            part == res.run.part
            edge == IF a.shape.kind = "Curve"
                    THEN Made("TopoDS_Edge", "EdgeByCurve", a.shape.id)
                    ELSE a.shape
        IN  /\ part.shape = edge
            /\ a.cref # None => part.cref = a.cref /\ Positions("curve_of_shape") = {}
            /\ a.cref = None =>
                  /\ part.cref = Made("Curve", "curve_of_shape", edge.id)
                  /\ Positions("curve_of_shape") = {Len(res.run.ops)}
            /\ Positions("EdgeByCurve") = IF a.shape.kind = "Curve" THEN {1} ELSE {}

\* A beam on a Curve without a reference curve, and so on the curve's edge.
C14_Witness ==
    /\ BuiltBy({"BeamByShape"})
    /\ res.args.shape.kind = "Curve" /\ res.args.cref = None
    /\ res.run.part.cref.id = "curve_of_shape(EdgeByCurve(crv))"

\* C15: SparByParameters and RibByParameters choose the reference surface
\* by the kind of basis_shape: without one the plane extracted from the wing
\* is the reference surface and, as a face, the basis shape; a Surface is the
\* reference surface itself; for a face or shell it is the surface extracted
\* from that shape. The reference curve is extracted from the wing with the
\* resulting basis shape, before the Boolean common operation.
C15_ReferenceSurfaceByBasisKind ==
    (/\ res.cls \in {"SparByParameters", "RibByParameters"}
     /\ res.run.exc \in {"none", "RuntimeError"}) =>
        LET a == res.args
            b == a.basis_shape
            part == res.run.part
            pln == Made("Plane", "extract_plane", a.wing.id)
            kind == IF b = None THEN "none"
                    ELSE IF IsInstance(b, {"Surface"}) THEN "surface"
                    ELSE IF IsInstance(b, {"TopoDS_Face", "TopoDS_Shell"}) THEN "shape"
                    ELSE "other"
            sref == CASE kind = "none" -> pln
                      [] kind = "surface" -> b
                      [] OTHER -> Made("Surface", "surface_of_shape", b.id)
            basis == CASE kind = "none" -> Made("TopoDS_Face", "FaceBySurface", pln.id)
                       [] kind = "surface" -> Made("TopoDS_Face", "FaceBySurface", b.id)
                       [] OTHER -> b
        IN  kind # "other" =>
              /\ \A i \in Positions("extract_curve"), j \in Positions("CommonShapes") :
                    i < j
              /\ Cardinality(Positions("extract_curve")) = 1
              /\ Cardinality(Positions("CommonShapes")) = 1
              /\ res.run.exc = "none" =>
                    /\ part.sref = sref
                    /\ part.cref = Made("Curve", "extract_curve",
                                        a.wing.id \o "," \o basis.id)

\* A rib on the wing plane, a spar on a plane given as surface and a spar
\* on a face are told apart by cls; this is the rib without a basis shape.
C15_Witness ==
    /\ BuiltBy({"RibByParameters"})
    /\ res.args.basis_shape = None
    /\ res.run.part.sref.id = "extract_plane(wing)"
    /\ res.run.part.cref.id = "extract_curve(wing,FaceBySurface(extract_plane(wing)))"

\* C16: SparBySurface and RibBySurface orient the reference curve so that
\* its start is the end nearest the wing's minimum-parameter point: in the
\* part the distance to the start is at most the distance to the end, and
\* the curve is reversed only when the end was strictly nearer.
C16_ReferenceCurveOriented ==
    BuiltBy({"SparBySurface", "RibBySurface"}) =>
        /\ res.run.ends[1] <= res.run.ends[2]
        /\ {res.run.ends[1], res.run.ends[2]} = {res.k.d1, res.k.d2}
        /\ (Positions("reverse") # {}) <=> (res.k.d2 < res.k.d1)
        /\ res.run.part.cref.kind = "Curve"

\* A spar whose intersection curve ended nearer than it started.
C16_Witness ==
    /\ BuiltBy({"SparBySurface"})
    /\ res.k.d2 < res.k.d1
    /\ res.run.ends = <<res.k.d2, res.k.d1>>
    /\ Positions("reverse") # {}

\* ------------------------------------------------------------------------
\* Claims about the multi-part builders
\* ------------------------------------------------------------------------

\* The elements of a sequence are pairwise distinct.
Distinct(seq) ==
    \A i \in 1..Len(seq), j \in 1..Len(seq) : i # j => seq[i] # seq[j]

\* C7: in every multi-part builder the k-th part created (k = 0, 1, ...)
\* carries the label label + delimiter + str(first_index + k); the labels of
\* one builder are pairwise distinct and their indices consecutive.
C7_LabelsIndexed ==
    mb # NoMulti =>
        LET a == mb.args.common
            labels == LabelsOf(mb.run.parts)
        IN  /\ \A i \in 1..Len(labels) :
                  labels[i] = a.label \o a.delimiter \o Str(a.first_index + (i - 1))
            /\ Distinct(labels)

\* A builder that made two parts numbered 9 and 10 with the empty delimiter.
C7_Witness ==
    /\ mb # NoMulti
    /\ mb.run.exc = "none"
    /\ mb.args.common.first_index = 9
    /\ mb.args.common.delimiter = ""
    /\ LabelsOf(mb.run.parts) = <<"rib9", "rib10">>

\* C8: after a multi-part builder succeeds, next_index is first_index plus
\* the number of parts it created, and the labels of a chain of builders,
\* each started at its predecessor's next_index with the same label and
\* delimiter, never repeat.
C8_NextIndexChains ==
    /\ (mb # NoMulti /\ mb.run.exc = "none") =>
            mb.run.next_index = mb.args.common.first_index + Len(mb.run.parts)
    /\ Distinct(chain.labels)

\* A chain whose last builder succeeded with parts after earlier parts.
C8_Witness ==
    /\ mb # NoMulti
    /\ mb.run.exc = "none"
    /\ Len(mb.run.parts) > 0
    /\ Len(chain.labels) > Len(mb.run.parts) + 1
    /\ mb.args.common.first_index \notin FirstIndexes

\* C9: after a multi-part builder succeeds, its count (nribs or nframes) is
\* the number of parts in the list it exposes.
C9_CountIsNumberOfParts ==
    (mb # NoMulti /\ mb.run.exc = "none") => mb.run.count = Len(mb.run.parts)

\* FramesByPlanes succeeded on a list of several planes.
C9_Witness ==
    /\ mb.cls = "FramesByPlanes"
    /\ mb.run.exc = "none"
    /\ mb.run.count > 1
    /\ mb.run.count = Len(mb.run.parts)

\* The first plane whose part the kernel reports make fail, 0 if none.
FirstFailing(reports) ==
    LET failing == {i \in 1..Len(reports) : reports[i] # DefaultK}
    IN  IF failing = {} THEN 0 ELSE CHOOSE i \in failing : \A j \in failing : i <= j

\* C20: a multi-part builder is all-or-nothing: when building one part
\* fails the constructor raises, the planes after the failing one are not
\* processed, and the caller gets no builder: none of the parts made before
\* the failure reaches the caller and there is no next_index to go on with.
C20_AllOrNothing ==
    mb # NoMulti =>
        LET f == FirstFailing(mb.args.reports)
        IN  /\ f > 0 =>
                  /\ mb.run.exc # "none"
                  /\ mb.run.processed = f
                  /\ Len(mb.run.parts) = f - 1
            /\ mb.run.exc # "none" =>
                  /\ \A i \in 1..Len(mb.run.parts), j \in 1..Len(chain.labels) :
                          mb.run.parts[i].label # chain.labels[j]
                  /\ Starts = {}

\* The second of three ribs failed after the first was made, in a builder
\* that followed a successful one.
C20_Witness ==
    /\ mb # NoMulti
    /\ Len(mb.args.reports) = 3
    /\ FirstFailing(mb.args.reports) = 2
    /\ mb.run.exc = "RuntimeError"
    /\ Len(mb.run.parts) = 1
    /\ mb.run.processed = 2
    /\ Len(chain.labels) > 0

\* ------------------------------------------------------------------------
\* Claims about the patched shape
\* ------------------------------------------------------------------------

\* C11: a patched shape's transparency stays within [0, 1]: it defaults to
\* 0 and after any set_transparency call the stored value is within [0, 1],
\* the value ViewableItem.set_transparency would store for the argument.
C11_ShapeTransparencyClamped ==
    /\ ~Lt(pshape.transparency, Zero)
    /\ ~Lt(One, pshape.transparency)
    /\ scall.op = "set_transparency" =>
          pshape.transparency = set_transparency(pshape, scall.args[1]).transparency

\* ------------------------------------------------------------------------
\* Claims about colours
\* ------------------------------------------------------------------------

\* a = b as numbers.
Eq(a, b) == a[1] * b[2] = b[1] * a[2]

\* 0 <= a <= hi.
Within(a, hi) == ~Lt(a, Zero) /\ ~Lt(Num(hi, 1), a)

\* The stored component c comes from the argument a alone: a above 1 is
\* divided by 255, a in [0, 1] is stored unchanged, and an argument in
\* 0..255 gives a component in [0, 1].
ComponentOf(c, a) ==
    /\ Lt(One, a) => Eq(c, DivBy(a, 255))
    /\ Within(a, 1) => Eq(c, a)
    /\ Within(a, 255) => Within(c, 1)

\* The colour c is the one set_color stores for the arguments args.
ColourOf(c, args) ==
    /\ ComponentOf(c.r, args[1])
    /\ ComponentOf(c.g, args[2])
    /\ ComponentOf(c.b, args[3])

\* C12: set_color(r, g, b), on a ViewableItem and on a patched shape alike,
\* stores a colour whose components are in [0, 1] whenever every argument is
\* in 0..255: a component above 1 is divided by 255, one in [0, 1] is stored
\* unchanged, and each is normalised independently of the other two.
C12_ColourNormalised ==
    /\ lastC.set => ColourOf(item.color, lastC.args)
    /\ scall.op = "set_color" => ColourOf(pshape.color, scall.args)

\* Both objects took a colour with one component of each kind.
C12_Witness ==
    /\ lastC.set /\ lastC.args = <<Num(255, 1), Num(1, 2), Num(2, 1)>>
    /\ item.color = Quantity_Color(Num(255, 255), Num(1, 2), Num(2, 255))
    /\ scall.op = "set_color" /\ scall.args = <<Num(1, 1), Num(2, 1), Num(255, 1)>>
    /\ pshape.color = Quantity_Color(Num(1, 1), Num(2, 255), Num(255, 255))

\* ------------------------------------------------------------------------
\* Claims about mirroring
\* ------------------------------------------------------------------------

\* What get_mirrored is to return for the mirror plane and kernel report:
\* None without a mirror plane or when the transform is not done, else the
\* transformed shape.
MirroredFor(mirror, k) ==
    IF mirror = None \/ k # "done" THEN None
    ELSE Obj("TopoDS_Shape", "mirrored(" \o mirror.id \o ")")

\* C13: get_mirrored returns None when no mirror plane has been set or the
\* kernel transform reports not done, otherwise the transformed shape; it
\* leaves colour, transparency and mirror plane unchanged, and set_mirror
\* changes only the mirror plane; on a ViewableItem and on a patched shape.
C13_MirroringIsForViewing ==
    /\ [][call_get_mirrored =>
            /\ item' = item
            /\ (item.mirror = None) <=> (vk' = "none")
            /\ vout' = MirroredFor(item.mirror, vk')]_vars
    /\ [][call_set_mirror => item' = [item EXCEPT !.mirror = item'.mirror]]_vars
    /\ [][TopoDS_Shape_get_mirrored =>
            /\ pshape' = pshape
            /\ (pshape.mirror = None) <=> (scall'.k = "none")
            /\ scall'.out = MirroredFor(pshape.mirror, scall'.k)]_vars
    /\ [][TopoDS_Shape_set_mirror =>
            pshape' = [pshape EXCEPT !.mirror = pshape'.mirror]]_vars

\* The item's transform was done and the shape's was not.
C13_Witness ==
    /\ item.mirror # None /\ vk = "done" /\ vout # None
    /\ Lt(Zero, item.transparency)
    /\ pshape.mirror # None /\ scall.op = "get_mirrored"
    /\ scall.k = "not done" /\ scall.out = None

\* ------------------------------------------------------------------------
\* Claims about occView
\* ------------------------------------------------------------------------

\* The view operations the last handler invoked, by name.
OpsDone == [i \in 1..Len(handled.ops) |-> handled.ops[i].op]

\* C17: pressing F fits all, I sets the isometric view and T the top view;
\* a key that is not mapped is ignored with no camera operation and no
\* error.
C17_KeyBindings ==
    handled.event = "keyPressEvent" =>
        /\ handled.exc = "none"
        /\ handled.ops =
              CASE handled.args[1] = "F" -> <<ViewOp("FitAll", <<>>)>>
                [] handled.args[1] = "I" -> <<ViewOp("SetProj", <<"XposYposZpos">>)>>
                [] handled.args[1] = "T" -> <<ViewOp("SetProj", <<"Zpos">>)>>
                [] OTHER -> <<>>

\* C18: for every sequence of GUI events delivered to the widget, in any
\* order and also before the first paint event, no event handler raises.
C18_NoHandlerRaises == handled.exc = "none"

\* C19: resizeEvent calls MustBeResized on the view exactly when the view
\* has been created, and does nothing, without touching the missing view,
\* when it has not.
C19_ResizeForwardedWhenViewExists ==
    handled.event = "resizeEvent" =>
        /\ handled.exc = "none"
        /\ OpsDone = IF handled.before.my_view THEN <<"MustBeResized">> ELSE <<>>

====
